---- MODULE Spec2Model ----
(***************************************************************************)
(* ddcvolume: monitor volume control over DDC/CI with a file cache.        *)
(*                                                                         *)
(* Model of src/ddcvolume/cmd_ddcvolume.py.  Every CLI invocation is one   *)
(* process that runs main(): --get runs DDCVolume.get, --set runs          *)
(* DDCVolume.set, DDCVolume.send_notify and DDCVolume.commit in sequence.  *)
(* The processes share the runtime directory ($XDG_RUNTIME_DIR/ddcvolume:  *)
(* the files "lock", "volume", "notification_id"), the monitor and the     *)
(* notification service.  File contents are modelled as Python strings     *)
(* (sequences of one-character strings); str() and int() are modelled by   *)
(* what they do.                                                           *)
(***************************************************************************)
EXTENDS Integers, Sequences, FiniteSets, TLC

\* ------------------------------------------------------------------ bounds

\* Number of CLI invocations (processes) that may overlap.
NumProcs == 2

Procs == 1..NumProcs

\* ------------------------------------------------------ Python str and int

DigitChars == <<"0", "1", "2", "3", "4", "5", "6", "7", "8", "9">>

\* The value of each decimal digit.
DigitValue ==
    [c \in {"0", "1", "2", "3", "4", "5", "6", "7", "8", "9"} |->
        CASE c = "0" -> 0 [] c = "1" -> 1 [] c = "2" -> 2 [] c = "3" -> 3
          [] c = "4" -> 4 [] c = "5" -> 5 [] c = "6" -> 6 [] c = "7" -> 7
          [] c = "8" -> 8 [] c = "9" -> 9]

IsDigit(c) == c \in DOMAIN DigitValue

DigitVal(c) == DigitValue[c]

\* Characters str.strip() / int() treat as white space (those the model uses).
IsSpace(c) == c \in {"\n", " "}

\* The outcome of a Python expression: a value, or a raised exception.
Ok(v) == [exc |-> "none", val |-> v]

Raise(e) == [exc |-> e, val |-> 0]

RECURSIVE py_str_nat(_)
py_str_nat(n) ==
    IF n < 10 THEN <<DigitChars[n + 1]>>
    ELSE py_str_nat(n \div 10) \o <<DigitChars[(n % 10) + 1]>>

\* str(n) for an int n.
py_str(n) == IF n < 0 THEN <<"-">> \o py_str_nat(0 - n) ELSE py_str_nat(n)

RECURSIVE lstrip(_)
lstrip(s) == IF s # <<>> /\ IsSpace(Head(s)) THEN lstrip(Tail(s)) ELSE s

RECURSIVE rstrip(_)
rstrip(s) ==
    IF s # <<>> /\ IsSpace(s[Len(s)]) THEN rstrip(SubSeq(s, 1, Len(s) - 1)) ELSE s

RECURSIVE digits_val(_)
digits_val(s) ==
    IF s = <<>> THEN 0
    ELSE 10 * digits_val(SubSeq(s, 1, Len(s) - 1)) + DigitVal(s[Len(s)])

IsDigits(s) == s # <<>> /\ \A i \in 1..Len(s) : IsDigit(s[i])

\* int(s) for a str s: surrounding white space is dropped, then an optional
\* sign and one or more decimal digits; anything else raises ValueError.
py_int(s) ==
    LET t == rstrip(lstrip(s))
        signed == t # <<>> /\ Head(t) \in {"+", "-"}
        body == IF signed THEN Tail(t) ELSE t
    IN  IF ~IsDigits(body) THEN Raise("ValueError")
        ELSE IF signed /\ Head(t) = "-" THEN Ok(0 - digits_val(body))
        ELSE Ok(digits_val(body))

Max(a, b) == IF a >= b THEN a ELSE b

Min(a, b) == IF a <= b THEN a ELSE b

\* ------------------------------------------------------------ environment

\* A file that does not exist (open(..., "r") raises FileNotFoundError).
NoFile == <<"ENOENT">>

\* Contents of the volume file when an invocation starts: the runtime
\* directory outlives invocations, so the cache is cold (no file) or holds a
\* value an earlier `--set` stored.
InitVolumeFiles == {NoFile, py_str(50)}

\* Contents of the notification_id file when an invocation starts: missing,
\* empty, or the handle an earlier send_notify stored.
InitNotificationFiles == {NoFile, <<>>, py_str(123) \o <<"\n">>}

\* Handles the notification service may return from Notify: the daemon counts
\* up, and starts again from a small number when it is restarted.
Handles == {7, 123}

\* What the monitor reports for VCP 62 when the first invocation starts.
InitMonitor == {62}

\* The values of `--set` the invocations draw from.
SetArgs ==
    { <<"+", "1">>, <<"+", "1", "0", "0", "0">>, <<"-", "8", "0">>,
      <<"4", "0">>, <<"4", "x">> }

\* No `--set` given (args.set is None).
NoArg == <<"None">>

\* The command lines: `--get`, or `--set <value>`.
Args ==
    {[get |-> TRUE, set |-> NoArg]} \cup {[get |-> FALSE, set |-> s] : s \in SetArgs}

\* A local variable that is not bound yet.
Unbound == 0 - 1

\* ------------------------------------------------------------------ state

VARIABLES
    volume_file,           \* content of the file "volume", or NoFile
    notification_id_file,  \* content of the file "notification_id", or NoFile
    lock,                  \* holder of the flock on the file "lock" (0: none)
    notification_lock,     \* holder of the flock on "notification_id" (0: none)
    monitor,               \* the monitor's VCP 62 (volume) value
    setvcp_log,            \* history: the `ddcutil setvcp 62` calls that have
                           \* exited, in the order they exited
    lock_order,            \* history: the invocations in the order their
                           \* flock on "lock" was granted
    getvcp_calls,          \* history: how many `ddcutil getvcp 62` calls
                           \* (hardware reads) were started
    last_handle,           \* history: the handle Notify returned last
                           \* (Unbound: Notify has not returned yet)
    volume_file0,          \* history: volume_file when the model starts
    pc,                    \* per invocation: the statement it is at
    args,                  \* per invocation: the parsed command line
    volume,                \* per invocation: the local `volume`
    notify_id,             \* per invocation: send_notify's local `notify_id`
    printed,               \* per invocation: what main printed for --get
    exc                    \* per invocation: the exception that ended it

vars ==
    <<volume_file, notification_id_file, lock, notification_lock, monitor,
      setvcp_log, lock_order, getvcp_calls, last_handle,
      volume_file0, pc, args, volume, notify_id, printed, exc>>

\* The history variables no statement of get and set touches.  No action
\* changes getvcp_calls: the only `ddcutil getvcp` call is in _refresh, which
\* raises NameError before it reaches check_output, and which _get never calls.
history == <<getvcp_calls, last_handle>>

shared == <<volume_file, notification_id_file, lock, notification_lock, monitor>>

Init ==
    /\ volume_file \in InitVolumeFiles
    /\ notification_id_file \in InitNotificationFiles
    /\ lock = 0
    /\ notification_lock = 0
    /\ monitor \in InitMonitor
    /\ setvcp_log = <<>>
    /\ lock_order = <<>>
    /\ getvcp_calls = 0
    /\ last_handle = Unbound
    /\ volume_file0 = volume_file
    /\ pc = [p \in Procs |-> "main"]
    /\ args = [p \in Procs |-> [get |-> FALSE, set |-> NoArg]]
    /\ volume = [p \in Procs |-> Unbound]
    /\ notify_id = [p \in Procs |-> Unbound]
    /\ printed = [p \in Procs |-> Unbound]
    /\ exc = [p \in Procs |-> "none"]

\* ------------------------------------------------------- DDCVolume helpers

\* Mutant of flock_LOCK_EX: a lock call that returns at once (LOCK_NB with the
\* error ignored, or no flock at all).
flock_never_blocks(holder) == TRUE

\* fcntl.flock(fl, LOCK_EX) returns once no other open file holds the lock.
flock_LOCK_EX(holder) == holder = 0

\* The clause `except filenotfounderror:` of _get names no defined object:
\* when an exception reaches it, evaluating the clause raises NameError, so
\* its handler (`return self._refresh()`) never runs.
except_filenotfounderror == Raise("NameError")

\* _refresh(): the keyword argument `text=true` is evaluated before
\* check_output is called and raises NameError: no hardware read happens and
\* no file is written.
_refresh == Raise("NameError")

\* Mutant of _get: a missing or unreadable volume file counts as volume 0.
_get_missing_is_zero(content) ==
    IF content = NoFile THEN Ok(0)
    ELSE LET v == py_int(content)
         IN  IF v.exc # "none" THEN Ok(0) ELSE v

\* _get(): the cached volume read from the file "volume".
_get(content) ==
    IF content = NoFile THEN except_filenotfounderror
    ELSE LET v == py_int(content)
         IN  IF v.exc # "none" THEN except_filenotfounderror ELSE v

\* Mutant of _update_volume: the result is not clamped to [0, 100].
_update_volume_unclamped(vol, volume_str) ==
    IF volume_str = <<>> THEN Raise("IndexError")
    ELSE IF py_int(volume_str).exc # "none" THEN Raise("ValueError")
    ELSE IF volume_str[1] = "+" \/ volume_str[1] = "-"
         THEN Ok(vol + py_int(volume_str).val)
         ELSE Ok(py_int(volume_str).val)

\* Mutant of _update_volume: a signed value is taken as an absolute target.
_update_volume_no_delta(vol, volume_str) ==
    IF volume_str = <<>> THEN Raise("IndexError")
    ELSE IF py_int(volume_str).exc # "none" THEN Raise("ValueError")
    ELSE Ok(Max(0, Min(py_int(volume_str).val, 100)))

\* _update_volume(volume, volume_str).
_update_volume(vol, volume_str) ==
    LET d == py_int(volume_str)
    IN  IF volume_str = <<>> THEN Raise("IndexError")
        ELSE IF volume_str[1] = "+" \/ volume_str[1] = "-"
             THEN IF d.exc # "none" THEN Raise("ValueError")
                  ELSE Ok(Max(0, Min(vol + d.val, 100)))
             ELSE IF d.exc # "none" THEN Raise("ValueError")
                  ELSE Ok(Max(0, Min(d.val, 100)))

\* fl.seek(0); fl.write(data) on a file opened "r+": the bytes from offset 0
\* are overwritten, the bytes behind the written ones stay.
write_at_0(content, data) ==
    IF Len(data) >= Len(content) THEN data
    ELSE data \o SubSeq(content, Len(data) + 1, Len(content))

\* An invocation ends, by returning or with an uncaught exception: its
\* locals are gone.
Finish(p, e) ==
    /\ pc' = [pc EXCEPT ![p] = "done"]
    /\ exc' = [exc EXCEPT ![p] = e]
    /\ volume' = [volume EXCEPT ![p] = Unbound]
    /\ notify_id' = [notify_id EXCEPT ![p] = Unbound]

Goto(p, label) ==
    /\ pc' = [pc EXCEPT ![p] = label]
    /\ UNCHANGED exc

\* ------------------------------------------------------------------- main

\* main(): parse_args, then dispatch on --get / --set.
main(p) ==
    /\ pc[p] = "main"
    /\ \E a \in Args :
        /\ args' = [args EXCEPT ![p] = a]
        /\ IF a.get THEN Goto(p, "get_flock") /\ UNCHANGED <<volume, notify_id>>
           ELSE IF a.set # NoArg
           THEN Goto(p, "set_flock") /\ UNCHANGED <<volume, notify_id>>
           ELSE Finish(p, "none")
    /\ UNCHANGED <<history, shared, setvcp_log, lock_order,
                   volume_file0, printed>>

\* ------------------------------------------------------------ DDCVolume.get

\* get(): open("lock", "w") and flock(LOCK_EX).
get_flock(p) ==
    /\ pc[p] = "get_flock"
    /\ flock_LOCK_EX(lock)
    /\ lock' = p
    /\ lock_order' = Append(lock_order, p)
    /\ Goto(p, "get_return")
    /\ UNCHANGED <<history, volume_file, notification_id_file, notification_lock,
                   monitor, setvcp_log, volume_file0, args, volume,
                   notify_id, printed>>

\* get(): `return self._get()`; leaving the with block closes the lock file,
\* which drops the flock, whether _get returned or raised.  main prints the
\* returned value.
get_return(p) ==
    /\ pc[p] = "get_return"
    /\ lock' = 0
    /\ IF _get(volume_file).exc = "none"
       THEN /\ printed' = [printed EXCEPT ![p] = _get(volume_file).val]
            /\ Finish(p, "none")
       ELSE /\ UNCHANGED printed
            /\ Finish(p, _get(volume_file).exc)
    /\ UNCHANGED <<history, volume_file, notification_id_file, notification_lock,
                   monitor, setvcp_log, lock_order, volume_file0, args>>

\* ------------------------------------------------------------ DDCVolume.set

\* set(): open("lock", "w") and flock(LOCK_EX).
set_flock(p) ==
    /\ pc[p] = "set_flock"
    /\ flock_LOCK_EX(lock)
    /\ lock' = p
    /\ lock_order' = Append(lock_order, p)
    /\ Goto(p, "set_get")
    /\ UNCHANGED <<history, volume_file, notification_id_file, notification_lock,
                   monitor, setvcp_log, volume_file0, args, volume,
                   notify_id, printed>>

\* set(): `volume = self._get()`; an exception leaves the with block, which
\* drops the flock, and ends the invocation.
set_get(p) ==
    /\ pc[p] = "set_get"
    /\ IF _get(volume_file).exc = "none"
       THEN /\ volume' = [volume EXCEPT ![p] = _get(volume_file).val]
            /\ Goto(p, "set_update")
            /\ UNCHANGED <<lock, notify_id>>
       ELSE /\ lock' = 0
            /\ Finish(p, _get(volume_file).exc)
    /\ UNCHANGED <<history, volume_file, notification_id_file, notification_lock,
                   monitor, setvcp_log, lock_order, volume_file0, args,
                   printed>>

\* Mutant of set_update: the volume file is opened for writing (and so
\* truncated) before the value is parsed.
set_update_open_first(p) ==
    /\ pc[p] = "set_update"
    /\ IF _update_volume(volume[p], args[p].set).exc = "none"
       THEN /\ volume' =
                 [volume EXCEPT ![p] = _update_volume(volume[p], args[p].set).val]
            /\ Goto(p, "set_write")
            /\ UNCHANGED <<lock, notify_id, volume_file>>
       ELSE /\ lock' = 0
            /\ volume_file' = <<>>
            /\ Finish(p, _update_volume(volume[p], args[p].set).exc)
    /\ UNCHANGED <<history, notification_id_file, notification_lock, monitor,
                   setvcp_log, lock_order, volume_file0, args, printed>>

\* Mutant of set_update: the lock file is not closed when _update_volume
\* raises.
set_update_leaks_lock(p) ==
    /\ pc[p] = "set_update"
    /\ IF _update_volume(volume[p], args[p].set).exc = "none"
       THEN /\ volume' =
                 [volume EXCEPT ![p] = _update_volume(volume[p], args[p].set).val]
            /\ Goto(p, "set_write")
            /\ UNCHANGED notify_id
       ELSE Finish(p, _update_volume(volume[p], args[p].set).exc)
    /\ UNCHANGED <<history, volume_file, notification_id_file, lock,
                   notification_lock, monitor, setvcp_log, lock_order,
                   volume_file0, args, printed>>

\* set(): `volume = self._update_volume(volume, volume_str)`; an exception
\* leaves the with block before the volume file is opened.
set_update(p) ==
    /\ pc[p] = "set_update"
    /\ IF _update_volume(volume[p], args[p].set).exc = "none"
       THEN /\ volume' =
                 [volume EXCEPT ![p] = _update_volume(volume[p], args[p].set).val]
            /\ Goto(p, "set_write")
            /\ UNCHANGED <<lock, notify_id>>
       ELSE /\ lock' = 0
            /\ Finish(p, _update_volume(volume[p], args[p].set).exc)
    /\ UNCHANGED <<history, volume_file, notification_id_file, notification_lock,
                   monitor, setvcp_log, lock_order, volume_file0, args,
                   printed>>

\* Mutant of set_write: the flock on "lock" is kept after the write.
set_write_keeps_lock(p) ==
    /\ pc[p] = "set_write"
    /\ volume_file' = py_str(volume[p])
    /\ Goto(p, "send_notify")
    /\ UNCHANGED <<history, notification_id_file, lock, notification_lock,
                   monitor, setvcp_log, lock_order, volume_file0, args, volume,
                   notify_id, printed>>

\* set(): open("volume", "w") truncates the file, fout.write(str(volume))
\* fills it; then the with blocks close both files and the flock is dropped.
set_write(p) ==
    /\ pc[p] = "set_write"
    /\ volume_file' = py_str(volume[p])
    /\ lock' = 0
    /\ Goto(p, "send_notify")
    /\ UNCHANGED <<history, notification_id_file, notification_lock, monitor,
                   setvcp_log, lock_order, volume_file0, args, volume,
                   notify_id, printed>>

\* ---------------------------------------------------- DDCVolume.send_notify

\* send_notify(): open("notification_id", "r+") raises FileNotFoundError when
\* the file is missing; otherwise flock(LOCK_EX) on it.
send_notify_open(p) ==
    /\ pc[p] = "send_notify"
    /\ IF notification_id_file = NoFile
       THEN /\ Finish(p, "FileNotFoundError")
            /\ UNCHANGED notification_lock
       ELSE /\ flock_LOCK_EX(notification_lock)
            /\ notification_lock' = p
            /\ Goto(p, "send_notify_read")
            /\ UNCHANGED <<volume, notify_id>>
    /\ UNCHANGED <<history, volume_file, notification_id_file, lock, monitor,
                   setvcp_log, lock_order, volume_file0, args, printed>>

\* send_notify(): fl.read(), fl.seek(0); an empty file means handle 0,
\* anything else goes through int(), whose ValueError leaves the with block.
send_notify_read(p) ==
    /\ pc[p] = "send_notify_read"
    /\ IF notification_id_file = <<>>
       THEN /\ notify_id' = [notify_id EXCEPT ![p] = 0]
            /\ Goto(p, "send_notify_Notify")
            /\ UNCHANGED <<notification_lock, volume>>
       ELSE IF py_int(notification_id_file).exc = "none"
       THEN /\ notify_id' =
                 [notify_id EXCEPT ![p] = py_int(notification_id_file).val]
            /\ Goto(p, "send_notify_Notify")
            /\ UNCHANGED <<notification_lock, volume>>
       ELSE /\ notification_lock' = 0
            /\ Finish(p, py_int(notification_id_file).exc)
    /\ UNCHANGED <<history, volume_file, notification_id_file, lock, monitor,
                   setvcp_log, lock_order, volume_file0, args, printed>>

\* Mutant of send_notify_Notify: the notification_id file stays open, and
\* locked, after the handle was stored.
send_notify_Notify_keeps_lock(p) ==
    /\ pc[p] = "send_notify_Notify"
    /\ \/ \E h \in Handles :
            /\ notification_id_file' =
                 write_at_0(notification_id_file, py_str(h) \o <<"\n">>)
            /\ last_handle' = h
            /\ notify_id' = [notify_id EXCEPT ![p] = Unbound]
            /\ Goto(p, "commit")
            /\ UNCHANGED <<volume, notification_lock>>
       \/ /\ Finish(p, "DBusException")
          /\ notification_lock' = 0
          /\ UNCHANGED <<notification_id_file, last_handle>>
    /\ UNCHANGED <<getvcp_calls, volume_file, lock, monitor, setvcp_log,
                   lock_order, volume_file0, args, printed>>

\* send_notify(): the D-Bus call Notify(..., replaces_id = notify_id, ...)
\* returns a handle, which fl.write(str(notify_id) + "\n") stores from
\* offset 0; or the call raises and the with block is left.  Either way the
\* file is closed, its flock dropped, and send_notify's locals are gone.
send_notify_Notify(p) ==
    /\ pc[p] = "send_notify_Notify"
    /\ notification_lock' = 0
    /\ \/ \E h \in Handles :
            /\ notification_id_file' =
                 write_at_0(notification_id_file, py_str(h) \o <<"\n">>)
            /\ last_handle' = h
            /\ notify_id' = [notify_id EXCEPT ![p] = Unbound]
            /\ Goto(p, "commit")
            /\ UNCHANGED volume
       \/ /\ Finish(p, "DBusException")
          /\ UNCHANGED <<notification_id_file, last_handle>>
    /\ UNCHANGED <<getvcp_calls, volume_file, lock, monitor, setvcp_log,
                   lock_order, volume_file0, args, printed>>

\* --------------------------------------------------------- DDCVolume.commit

\* One `ddcutil setvcp 62 -- <volume>` call as the history records it.
setvcp(p, rc) == [value |-> volume[p], rc |-> rc]

\* commit(volume): subprocess.check_call starts `sudo ddcutil ... setvcp 62`
\* and waits for it; no lock is taken.
commit_call(p) ==
    /\ pc[p] = "commit"
    /\ Goto(p, "commit_wait")
    /\ UNCHANGED <<history, shared, setvcp_log, lock_order, volume_file0,
                   args, volume, notify_id, printed>>

\* Mutant of commit: a failed hardware write rolls the cache back to the
\* value the monitor has.
commit_failure_rolls_back(p) ==
    /\ pc[p] = "commit_wait"
    /\ \/ /\ monitor' = volume[p]
          /\ setvcp_log' = Append(setvcp_log, setvcp(p, 0))
          /\ Finish(p, "none")
          /\ UNCHANGED volume_file
       \/ /\ UNCHANGED monitor
          /\ setvcp_log' = Append(setvcp_log, setvcp(p, 1))
          /\ Finish(p, "CalledProcessError")
          /\ volume_file' = py_str(monitor)
    /\ UNCHANGED <<history, notification_id_file, lock,
                   notification_lock, lock_order, volume_file0, args, printed>>

\* commit(volume): the subprocess exits.  Exit status 0: the monitor has the
\* value.  Any other exit status makes check_call raise CalledProcessError;
\* the monitor is taken to keep its value then.
commit(p) ==
    /\ pc[p] = "commit_wait"
    /\ \/ /\ monitor' = volume[p]
          /\ setvcp_log' = Append(setvcp_log, setvcp(p, 0))
          /\ Finish(p, "none")
       \/ /\ UNCHANGED monitor
          /\ setvcp_log' = Append(setvcp_log, setvcp(p, 1))
          /\ Finish(p, "CalledProcessError")
    /\ UNCHANGED <<history, volume_file, notification_id_file, lock,
                   notification_lock, lock_order, volume_file0, args, printed>>

\* ---------------------------------------------------------- specification

\* One step of invocation p of the command.
invocation(p) ==
    \/ main(p)
    \/ get_flock(p)
    \/ get_return(p)
    \/ set_flock(p)
    \/ set_get(p)
    \/ set_update(p)
    \/ set_write(p)
    \/ send_notify_open(p)
    \/ send_notify_read(p)
    \/ send_notify_Notify(p)
    \/ commit_call(p)
    \/ commit(p)

Next == \E p \in Procs : invocation(p)

Spec == Init /\ [][Next]_vars

\* Every process that can run does run: the interpreter executes its next
\* statement, flock grants a free lock to a waiting caller, and the D-Bus
\* call and the ddcutil subprocess return.
FairSpec == Spec /\ \A p \in Procs : WF_vars(invocation(p))

\* ------------------------------------------------- definitions for claims

\* An invocation is inside set's read-modify-write of the volume file.
InUpdate(p) == pc[p] \in {"set_get", "set_update", "set_write"}

\* The volume file after one set(volume_str) running alone on `content`.
SerialSet(content, volume_str) ==
    LET cur == _get(content)
        new == _update_volume(cur.val, volume_str)
    IN  IF cur.exc # "none" \/ new.exc # "none" THEN content ELSE py_str(new.val)

\* The volume file after the invocations of `order` ran one after another.
RECURSIVE Serial(_, _)
Serial(content, order) ==
    IF order = <<>> THEN content
    ELSE Serial(IF args[Head(order)].get THEN content
                ELSE SerialSet(content, args[Head(order)].set),
                Tail(order))

Clamp(x) == IF x < 0 THEN 0 ELSE IF x > 100 THEN 100 ELSE x

\* What the well-formed values of SetArgs mean: a delta or an absolute target.
ArgMeaning ==
    { [str |-> <<"+", "1">>, delta |-> TRUE, n |-> 1],
      [str |-> <<"+", "1", "0", "0", "0">>, delta |-> TRUE, n |-> 1000],
      [str |-> <<"-", "8", "0">>, delta |-> TRUE, n |-> 0 - 80],
      [str |-> <<"4", "0">>, delta |-> FALSE, n |-> 40] }

\* The values of SetArgs that are no integer.
InvalidArgs == { <<"4", "x">> }

\* Index of the last setvcp call that succeeded (0: none has).
LastOk ==
    IF \E i \in 1..Len(setvcp_log) : setvcp_log[i].rc = 0
    THEN CHOOSE i \in 1..Len(setvcp_log) :
            /\ setvcp_log[i].rc = 0
            /\ \A j \in (i + 1)..Len(setvcp_log) : setvcp_log[j].rc # 0
    ELSE 0

\* ------------------------------------------------------------------ claims

\* C1: whenever no invocation is inside set's critical section, the volume
\* file holds what applying the updates one after another, in the order in
\* which they acquired the lock, leaves in it: no update is lost or mixed.
C1_SerialInLockOrder ==
    (\A p \in Procs : ~InUpdate(p)) => volume_file = Serial(volume_file0, lock_order)

\* C1 witness: two overlapping `--set +1` on a cache of 50 have both written,
\* neither invocation has ended, and the file holds 52.
C1_Witness ==
    \E p, q \in Procs :
        /\ lock_order = <<p, q>>
        /\ args[p].set = <<"+", "1">> /\ args[q].set = <<"+", "1">>
        /\ pc[p] = "send_notify" /\ pc[q] = "send_notify"
        /\ volume_file0 = <<"5", "0">>
        /\ volume_file = <<"5", "2">>

\* C4: the volume file, when it exists, holds an integer in [0, 100], and so
\* does every value a successful hardware write committed.
C4_VolumeInRange ==
    /\ volume_file # NoFile =>
          /\ py_int(volume_file).exc = "none"
          /\ py_int(volume_file).val \in 0..100
    /\ \A i \in 1..Len(setvcp_log) :
          setvcp_log[i].rc = 0 => setvcp_log[i].value \in 0..100

\* C4 witness: `--set +1000` on a cache of 50 stored 100 and committed it.
C4_Witness ==
    \E p \in Procs :
        /\ args[p].set = <<"+", "1", "0", "0", "0">>
        /\ pc[p] = "done" /\ exc[p] = "none"
        /\ volume_file = <<"1", "0", "0">>
        /\ LastOk # 0 /\ setvcp_log[LastOk].value = 100

\* C5: with a cached volume v, update("+d") yields clamp(v + d), update("-d")
\* yields clamp(v - d), an unsigned value yields clamp(value); that result is
\* what set returns and what the volume file holds afterwards.
C5_UpdateClamps ==
    [][\A p \in Procs : \A m \in ArgMeaning :
         args[p].set = m.str =>
            /\ (pc[p] = "set_update" /\ pc'[p] # "set_update") =>
                  /\ volume_file = py_str(volume[p])
                  /\ volume[p] \in 0..100
                  /\ pc'[p] = "set_write"
                  /\ volume'[p] = Clamp(IF m.delta THEN volume[p] + m.n ELSE m.n)
            /\ (pc[p] = "set_write" /\ pc'[p] # "set_write") =>
                  /\ volume'[p] = volume[p]
                  /\ py_int(volume_file') = Ok(volume[p])
                  /\ volume_file' = py_str(volume[p])
      ]_vars

\* C5 witness: `--set +1000` and then `--set +1` both returned 100.
C5_Witness ==
    \E p, q \in Procs :
        /\ lock_order = <<p, q>>
        /\ args[p].set = <<"+", "1", "0", "0", "0">> /\ args[q].set = <<"+", "1">>
        /\ pc[p] = "send_notify" /\ pc[q] = "send_notify"
        /\ volume[p] = 100 /\ volume[q] = 100
        /\ volume_file = <<"1", "0", "0">>

\* C10: an invocation of `--set` whose value is no integer never changes the
\* volume file, and ends with an exception.
C10_ParseFailureKeepsFile ==
    [][\A p \in Procs :
         (args[p].set \in InvalidArgs /\ pc'[p] # pc[p]) =>
            /\ volume_file' = volume_file
            /\ pc'[p] \in {"set_get", "set_update", "done"}
            /\ pc'[p] = "done" => exc'[p] \in {"ValueError", "NameError"}
      ]_vars

\* C10 witness: `--set 4x` on a cache of 50 ended with ValueError and the
\* file still holds 50.
C10_Witness ==
    \E p \in Procs :
        /\ args[p].set \in InvalidArgs
        /\ pc[p] = "done" /\ exc[p] = "ValueError"
        /\ lock_order = <<p>>
        /\ volume_file = <<"5", "0">>

\* C2: once every invocation has completed successfully and at least one
\* hardware write was made, the value most recently written to the hardware
\* is the cached volume.
C2_HardwareEqualsCache ==
    ( /\ \A p \in Procs : pc[p] = "done" /\ exc[p] = "none"
      /\ setvcp_log # <<>> )
    => /\ monitor = setvcp_log[Len(setvcp_log)].value
       /\ py_int(volume_file) = Ok(monitor)

\* C3: a commit that runs while the cached volume equals the value last
\* committed to the hardware (here: the commit of a `--set` that left the
\* cached volume at that value) makes no hardware call.
C3_NoWriteWhenUnchanged ==
    [][\A p \in Procs :
         ( /\ pc[p] = "commit" /\ pc'[p] # "commit"
           /\ LastOk # 0
           /\ py_int(volume_file) = Ok(setvcp_log[LastOk].value)
           /\ volume[p] = setvcp_log[LastOk].value )
         => pc'[p] # "commit_wait"
      ]_vars

\* C6: a get that takes the lock right after update("v"), v an absolute value
\* in [0, 100], returns v, whatever the cache held before (also nothing).
C6_SetThenGet ==
    \A i \in 1..(Len(lock_order) - 1) :
        LET p == lock_order[i]
            q == lock_order[i + 1]
        IN  ( /\ args[p].set = <<"4", "0">>
              /\ args[q].get
              /\ pc[q] = "done" )
            => exc[q] = "none" /\ printed[q] = 40

\* C7: a get that finds no volume file does not fail: it returns the value
\* the monitor reports and leaves that value in the volume file.
C7_ColdGetRefreshes ==
    [][\A p \in Procs :
         ( /\ pc[p] = "get_return" /\ pc'[p] # "get_return"
           /\ volume_file = NoFile )
         => /\ exc'[p] = "none"
            /\ printed'[p] = monitor
            /\ volume_file' = py_str(monitor)
      ]_vars

\* C8: the committed value is that of the last successful hardware write,
\* and the commit called next after a failed hardware write attempts the
\* write of the cached volume again (not of some other value).
C8_RetrySameWrite ==
    [][/\ \A p \in Procs :
            ( /\ pc[p] = "commit" /\ pc'[p] = "commit_wait"
              /\ setvcp_log # <<>>
              /\ setvcp_log[Len(setvcp_log)].rc # 0 )
            => py_int(volume_file) = Ok(volume'[p])
       /\ monitor' # monitor =>
            /\ setvcp_log' # setvcp_log
            /\ setvcp_log'[Len(setvcp_log')] = [value |-> monitor', rc |-> 0]
      ]_vars

\* C9: while no commit has succeeded yet, every commit calls the hardware
\* write with the volume cached at that moment, and a successful one leaves
\* exactly that volume committed.
C9_FirstCommitWritesCache ==
    [][\A p \in Procs :
         /\ ( /\ pc[p] = "commit" /\ pc'[p] # "commit"
              /\ LastOk = 0 )
            => /\ pc'[p] = "commit_wait"
               /\ py_int(volume_file) = Ok(volume'[p])
         /\ ( /\ pc[p] = "commit_wait" /\ exc'[p] = "none" /\ pc'[p] = "done"
              /\ LastOk = 0 )
            => monitor' = volume[p]
      ]_vars

C12_NotifyFailureStillCommits ==
    [][\A p \in Procs :
         pc[p] \in {"send_notify", "send_notify_read", "send_notify_Notify"}
         => pc'[p] # "done"
      ]_vars

\* C13: a failed hardware write leaves the cached volume as it was: the
\* volume file is the same after the failed commit as before it.
C13_FailedCommitKeepsCache ==
    [][\A p \in Procs :
         (pc[p] = "commit_wait" /\ exc'[p] = "CalledProcessError")
         => volume_file' = volume_file
      ]_vars

\* A commit has failed and the volume file still holds the value it tried
\* to write.
C13_Witness ==
    /\ setvcp_log # <<>>
    /\ setvcp_log[Len(setvcp_log)].rc # 0
    /\ volume_file = py_str(setvcp_log[Len(setvcp_log)].value)
    /\ \E p \in Procs : pc[p] = "done" /\ exc[p] = "CalledProcessError"

\* C14: hardware writes are serialized: in no state are two invocations in
\* the `ddcutil setvcp` call at the same time.
C14_OneHardwareWriteAtATime ==
    Cardinality({p \in Procs : pc[p] = "commit_wait"}) <= 1

C16_LocksReleasedOnExit ==
    \A p \in Procs :
        /\ lock = p =>
             pc[p] \in {"get_return", "set_get", "set_update", "set_write"}
        /\ notification_lock = p =>
             pc[p] \in {"send_notify_read", "send_notify_Notify"}

\* A --set has ended with the parse error of its value, and after it another
\* invocation has acquired the volume lock.
C16_Witness ==
    \E p \in Procs :
        /\ pc[p] = "done"
        /\ exc[p] = "ValueError"
        /\ args[p].set = <<"4", "x">>
        /\ lock \in Procs \ {p}

\* Every invocation has ended.
Done == \A p \in Procs : pc[p] = "done"

\* The number of statements an invocation at the given place has left on
\* its longest way to its end.
StepsLeft ==
    [main |-> 10, get_flock |-> 2, get_return |-> 1, set_flock |-> 9,
     set_get |-> 8, set_update |-> 7, set_write |-> 6, send_notify |-> 5,
     send_notify_read |-> 4, send_notify_Notify |-> 3, commit |-> 2,
     commit_wait |-> 1, done |-> 0]

\* An invocation waits: it is at a flock call that cannot return now.  Every
\* other statement of an invocation that has not ended can always run.
Waiting(p) ==
    /\ pc[p] \in {"get_flock", "set_flock", "send_notify"}
    /\ ~ENABLED (get_flock(p) \/ set_flock(p) \/ send_notify_open(p))

\* C17: no deadlock is reachable: unless all invocations have ended, one of
\* them is not waiting for a lock, and an invocation that waits for a lock
\* holds none (no cycle of waits); and every step brings its invocation
\* closer to its end, so that with fair scheduling every invocation
\* terminates.
C17_NoDeadlock ==
    /\ [](/\ Done \/ \E p \in Procs : pc[p] # "done" /\ ~Waiting(p)
          /\ \A p \in Procs : Waiting(p) => (lock # p /\ notification_lock # p))
    /\ [][\A p \in Procs :
            pc'[p] # pc[p] => StepsLeft[pc'[p]] < StepsLeft[pc[p]]]_vars

\* C17 as a liveness property of FairSpec: eventually every invocation has
\* ended, for good.
EveryInvocationTerminates == <>[]Done

\* An invocation waits for the volume lock while another one, which holds
\* it, is about to write the volume file.
C17_Witness ==
    \E p, q \in Procs :
        /\ Waiting(p)
        /\ pc[p] = "set_flock"
        /\ lock = q
        /\ pc[q] = "set_write"

\* C18: once send_notify has completed, the notification_id file holds
\* exactly the handle Notify returned last, whatever it held before, so the
\* next send_notify reads that handle.
C18_StoredHandleIsReturned ==
    (notification_lock = 0 /\ last_handle # Unbound)
    => py_int(notification_id_file) = Ok(last_handle)

\* C19: send_notify takes an absent or unparsable stored handle as 0: a
\* missing notification_id file does not end the invocation, and a content
\* that is no integer leads to the Notify call with replaces_id 0.
C19_AbsentHandleIsZero ==
    [][\A p \in Procs :
         /\ (pc[p] = "send_notify" /\ notification_id_file = NoFile)
            => pc'[p] # "done"
         /\ ( /\ pc[p] = "send_notify_read" /\ pc'[p] # pc[p]
              /\ py_int(notification_id_file).exc # "none" )
            => (pc'[p] = "send_notify_Notify" /\ notify_id'[p] = 0)
      ]_vars

\* C20: the hardware is read only to seed an absent cache: never when the
\* volume file exists, and exactly once, by the time the first get or set
\* has ended, when the invocations start without a volume file.
C20_OneHardwareRead ==
    /\ volume_file0 # NoFile => getvcp_calls = 0
    /\ ( /\ volume_file0 = NoFile
         /\ \E p \in Procs :
              pc[p] = "done" /\ (args[p].get \/ args[p].set # NoArg) )
       => getvcp_calls = 1

====
